---- MODULE Spec2Model ----
(***************************************************************************)
(* Model of the request-time authorization gateway of the backend API:     *)
(* middleware DecodeAuth (token verification wiring) followed by           *)
(* middleware Enforce (account check, capability resolution through the    *)
(* AuthCache, permission match), in front of the downstream handlers of    *)
(* the DNS provider routes.  Requests are served concurrently.             *)
(***************************************************************************)
EXTENDS Integers, Sequences, FiniteSets, TLC

(***************************************************************************)
(* Bounds of the model.                                                    *)
(***************************************************************************)
MaxUser == 2
MaxCapLen == 2
MaxPermLen == 2
NumTasks == 3

(***************************************************************************)
(* Program constants.                                                      *)
(***************************************************************************)
StatusUnauthorized == 401
StatusForbidden == 403
StatusOK == 200
StatusBadRequest == 400
StatusNotFound == 404

CapabilityFullAdmin == "full-admin"

Users == 1..MaxUser
Capabilities == {CapabilityFullAdmin, "hosts.view", "hosts.manage"}

\* []string values: capability lists held by a user, permission lists of a route
\* (a user holds a capability once, a route names a permission once)
NoRepeat(l) == \A i, j \in 1..Len(l) : l[i] = l[j] => i = j
CapLists == {l \in UNION {[1..n -> Capabilities] : n \in 0..MaxCapLen} : NoRepeat(l)}
PermLists == {l \in UNION {[1..n -> Capabilities] : n \in 0..MaxPermLen} : NoRepeat(l)}

\* slices.Contains
Contains(s, e) == \E i \in 1..Len(s) : s[i] = e

(***************************************************************************)
(* Tokens and claims.  The "uid" claim of a decoded token is a JSON value: *)
(* absent, a string, or a number (float64).  A number is kept as twice its *)
(* value so that the fractional value 1.5 is representable.                *)
(***************************************************************************)
AbsentUid == [type |-> "absent", twice |-> 0]
StringUid == [type |-> "string", twice |-> 0]
NumberUids == {[type |-> "float64", twice |-> t] : t \in {2 * u : u \in Users} \cup {3}}
UidClaims == {AbsentUid, StringUid} \cup NumberUids

NoToken == [kind |-> "none", uid |-> AbsentUid]
Malformed == [kind |-> "malformed", uid |-> AbsentUid]
SignedTokens == [kind : {"wrongkey", "expired", "valid"}, uid : UidClaims]
TokenStrings == {NoToken, Malformed} \cup SignedTokens

\* the token strings tried in the query parameter when a header is also sent
QueryTokens == {NoToken, Malformed, [kind |-> "valid", uid |-> [type |-> "float64", twice |-> 2]]}

NilToken == [kind |-> "nil", uid |-> AbsentUid]
NoError == "nil"

\* uint(f) of a float64 f: truncation toward zero
ToUint(uid) == uid.twice \div 2


VARIABLES
    IsSetup,      \* config.IsSetup: the deployment is configured
    privateKey,   \* what njwt.GetPrivateKey gave DecodeAuth: a key or nil
    publicKey,    \* what njwt.GetPublicKey gave DecodeAuth: a key or nil
    AuthCache,    \* the Capability Cache: cache key -> []string
    pc,           \* position of each request goroutine
    req,          \* the request each goroutine serves
    resp,         \* what the gateway and the handler behind it did with it
    mu,           \* the cache's lock: the task holding it, 0 when free
    tpc,          \* position of each concurrent cache client
    tpos,         \* number of elements a client's Set has written
    tgot,         \* what each client's last Get returned
    tset          \* the clients whose Set has returned

svars == <<IsSetup, privateKey, publicKey, pc, req, resp>>
cvars == <<mu, tpc, tpos, tgot, tset>>
vars == <<IsSetup, privateKey, publicKey, AuthCache, pc, req, resp, mu, tpc, tpos, tgot, tset>>

\* net/http serves every request in a goroutine of its own
Goroutines == {"A", "B"}

\* concurrent clients of the cache
Tasks == 1..NumTasks

(***************************************************************************)
(* Token Verifier: jwtauth.Verify(tokenAuth, TokenFromHeader,              *)
(* TokenFromQuery).  It never answers the request itself: it stores the    *)
(* token and the verification error in the request context.                *)
(***************************************************************************)
TokenFromHeader(r) == r.header
TokenFromQuery(r) == r.query

\* first finder that yields a non-empty string wins
FindToken(r) ==
    IF TokenFromHeader(r) # NoToken THEN TokenFromHeader(r) ELSE TokenFromQuery(r)

\* a key that did not parse is nil
NilKey == "nil"
ParsedKey == "key"
Keys == {NilKey, ParsedKey}

\* jwtauth.New(alg, signKey, verifyKey)
New(alg, signKey, verifyKey) == [alg |-> alg, signKey |-> signKey, verifyKey |-> verifyKey]

\* the verifier DecodeAuth builds from whatever the two parses gave it; a
\* parse error is logged and nothing else
tokenAuth == New("RS256", privateKey, publicKey)

\* signatures are checked with the public key; without one no signature
\* can be checked
CanVerify(ja) == ja.verifyKey # NilKey

VerifyToken(ja, tokenString) ==
    IF tokenString.kind = "malformed" \/ tokenString.kind = "wrongkey" \/ ~CanVerify(ja)
    THEN [token |-> NilToken, err |-> "token is unauthorized"]
    ELSE IF tokenString.kind = "expired"
    THEN [token |-> tokenString, err |-> "token is expired"]
    ELSE [token |-> tokenString, err |-> NoError]

VerifyRequest(ja, r) ==
    IF FindToken(r) = NoToken
    THEN [token |-> NilToken, err |-> "no token found"]
    ELSE VerifyToken(ja, FindToken(r))

\* the request context after DecodeAuth
DecodeAuth(r) == VerifyRequest(tokenAuth, r)

\* jwtauth.FromContext: claims are empty when there is no token
FromContext(ctx) ==
    [token |-> ctx.token,
     claims |-> IF ctx.token # NilToken THEN [uid |-> ctx.token.uid] ELSE [uid |-> AbsentUid],
     err |-> ctx.err]

(***************************************************************************)
(* Collaborators.  A request r carries, next to what the client sent, the  *)
(* answers the backing store has for the bearer while r is served:         *)
(* r.account for user.IsEnabled, r.capabilities for user.GetCapabilities.  *)
(***************************************************************************)
\* user.IsEnabled(userID) -> (record, enabled, error)
AccountAnswers == [enabled : BOOLEAN, err : BOOLEAN]
IsEnabled(r, userID) == r.account

\* user.GetCapabilities(userID) -> ([]string, error): a list, or a failure
\* that comes with the empty list
CapabilityAnswers ==
    {[caps |-> l, err |-> FALSE] : l \in CapLists} \cup {[caps |-> <<>>, err |-> TRUE]}
GetCapabilities(r, userID) == r.capabilities

\* fmt.Sprintf("userCapabilties.%v", userID)
CacheKey(userID) == <<"userCapabilties", userID>>

\* AuthCache.Get(k) -> (item, found)
AuthCacheGet(cache, k) ==
    IF k \in DOMAIN cache
    THEN [item |-> cache[k], found |-> TRUE]
    ELSE [item |-> <<>>, found |-> FALSE]

\* AuthCacheSet(k, x): insert or replace
AuthCacheSet(cache, k, x) ==
    [j \in DOMAIN cache \cup {k} |-> IF j = k THEN x ELSE cache[j]]

\* expiry of the entry under k
AuthCacheExpire(cache, k) ==
    [j \in DOMAIN cache \ {k} |-> cache[j]]

(***************************************************************************)
(* Access Enforcer.                                                        *)
(***************************************************************************)
\* what one run of the Enforce handler did; nothing yet
Blank ==
    [responses |-> 0,                \* calls of h.ResultErrorJSON
     status |-> 0,                   \* code written by h.ResultErrorJSON
     message |-> "",                 \* error message of the JSON body
     panicked |-> FALSE,             \* the handler ended in a runtime panic
     nextCalls |-> 0,                \* calls of next.ServeHTTP
     ctxHasUserID |-> FALSE,         \* c.UserIDCtxKey is set in the context handed on
     ctxUserID |-> 0,
     handler |-> "",                 \* the downstream handler of the route
     waiting |-> "",                 \* the store call the handler waits in
     dstatus |-> 0,                  \* code the downstream handler answered
     saved |-> FALSE,                \* its Save() stored the item
     deleted |-> FALSE,              \* its Delete() ran
     owner |-> 0,                    \* newItem.UserID set by CreateDNSProvider
     userID |-> 0,
     isEnabledCalls |-> 0,
     cacheGets |-> 0,
     found |-> FALSE,
     getCapsCalls |-> 0,
     cacheSets |-> 0,
     matchRan |-> FALSE,             \* the permission match was reached
     userCapabilities |-> <<>>,
     hasOnePermission |-> FALSE]

\* h.ResultErrorJSON(w, r, status, message, nil); return
ResultErrorJSON(o, status, message) ==
    [o EXCEPT !.responses = @ + 1, !.status = status, !.message = message]

\* next.ServeHTTP(w, r.WithContext(ctx)) is called
ServeNext(o) == [o EXCEPT !.nextCalls = @ + 1]

\* variant: the user identifier is not put in the context
WithUserID_NotSet(o, userID) == o

\* ctx = context.WithValue(ctx, c.UserIDCtxKey, userID)
WithUserID(o, userID) == [o EXCEPT !.ctxHasUserID = TRUE, !.ctxUserID = userID]

\* the match loop: one pass over the required permissions, the sentinel
\* tested on every pass
RECURSIVE MatchLoop(_, _, _, _)
MatchLoop(userCapabilities, permissions, i, hasOnePermission) ==
    IF i > Len(permissions)
    THEN hasOnePermission
    ELSE MatchLoop(userCapabilities, permissions, i + 1,
                   IF Contains(userCapabilities, CapabilityFullAdmin)
                      \/ Contains(userCapabilities, permissions[i])
                   THEN TRUE
                   ELSE hasOnePermission)

\* variant: the full-admin sentinel is not tested
HasOnePermission_NoSentinel(userCapabilities, permissions) ==
    \E i \in 1..Len(permissions) : Contains(userCapabilities, permissions[i])

\* variant: the loop is left after its first pass
HasOnePermission_FirstOnly(userCapabilities, permissions) ==
    /\ Len(permissions) > 0
    /\ \/ Contains(userCapabilities, CapabilityFullAdmin)
       \/ Contains(userCapabilities, permissions[1])

HasOnePermission(userCapabilities, permissions) ==
    MatchLoop(userCapabilities, permissions, 1, FALSE)

\* variant: the verification error is not looked at
TokenRejected_Never(err) == FALSE

\* err != nil after jwtauth.FromContext
TokenRejected(err) == err # NoError

\* variant: the enabled flag is not looked at
AccountRejected_TokenOnly(token, enabled) == token = NilToken

\* token == nil || !enabled
AccountRejected(token, enabled) == token = NilToken \/ ~enabled

\* variant: the match is made on every route
NeedsPermissions_Always(permissions) == TRUE

\* len(permissions) > 0
NeedsPermissions(permissions) == Len(permissions) > 0

\* the guard of the AuthCacheSet call after user.GetCapabilities
StoresLookup(err) == err

\* variant: a failed match is not answered
Decide_NoDeny(o, permissions) ==
    ServeNext(WithUserID([o EXCEPT !.matchRan = TRUE], o.userID))

\* the permission match and what follows it, for a resolved capability list
Decide(o, permissions) ==
    LET has == HasOnePermission(o.userCapabilities, permissions)
        o1 == [o EXCEPT !.matchRan = TRUE, !.hasOnePermission = has]
    IN IF ~has
       THEN ResultErrorJSON(o1, StatusForbidden, "Forbidden")
       ELSE ServeNext(WithUserID(o1, o1.userID))

\* the handler's body under config.IsSetup, up to its call of user.IsEnabled
EnforceConfigured(r, ctx) ==
    LET fc == FromContext(ctx)
    IN IF TokenRejected(fc.err)
       THEN ResultErrorJSON(Blank, StatusUnauthorized, fc.err)
       ELSE IF fc.claims.uid.type # "float64"
       THEN [Blank EXCEPT !.panicked = TRUE]
       ELSE [Blank EXCEPT !.userID = ToUint(fc.claims.uid), !.isEnabledCalls = @ + 1]

\* variant: config.IsSetup is not looked at
Enforce_IgnoresSetup(r, ctx, setup) == EnforceConfigured(r, ctx)

\* Enforce(permissions...)(next) entered by request r, whose context is ctx:
\* the handler runs until it answers, calls next.ServeHTTP, or waits for
\* user.IsEnabled
Enforce(r, ctx, setup) ==
    IF setup
    THEN EnforceConfigured(r, ctx)
    ELSE ServeNext(Blank)

\* variant: the store is asked whether or not the cache has an entry
AfterIsEnabled_SkipsCache(r, o, token, cache) ==
    LET e == IsEnabled(r, o.userID)
        got == AuthCacheGet(cache, CacheKey(o.userID))
        o1 == [o EXCEPT !.cacheGets = @ + 1, !.found = got.found]
    IN IF AccountRejected(token, e.enabled)
       THEN ResultErrorJSON(o, StatusUnauthorized, "Unauthorised")
       ELSE IF NeedsPermissions(r.permissions)
       THEN [o1 EXCEPT !.getCapsCalls = @ + 1]
       ELSE ServeNext(WithUserID(o, o.userID))

\* user.IsEnabled has answered: the account check, then AuthCache.Get on a
\* permission-checked route; on a hit the match is decided on the cached
\* list, on a miss the handler calls user.GetCapabilities and waits
AfterIsEnabled(r, o, token, cache) ==
    LET e == IsEnabled(r, o.userID)
        got == AuthCacheGet(cache, CacheKey(o.userID))
        o1 == [o EXCEPT !.cacheGets = @ + 1, !.found = got.found]
    IN IF AccountRejected(token, e.enabled)
       THEN ResultErrorJSON(o, StatusUnauthorized, "Unauthorised")
       ELSE IF NeedsPermissions(r.permissions)
       THEN IF got.found
            THEN Decide([o1 EXCEPT !.userCapabilities = got.item], r.permissions)
            ELSE [o1 EXCEPT !.getCapsCalls = @ + 1]
       ELSE ServeNext(WithUserID(o, o.userID))

\* user.GetCapabilities has answered: AuthCacheSet under its guard, then the
\* match on the list the store returned
AfterGetCapabilities(r, o, cache) ==
    LET cacheKey == CacheKey(o.userID)
        g == GetCapabilities(r, o.userID)
        o1 == [o EXCEPT !.userCapabilities = g.caps,
                        !.cacheSets = IF StoresLookup(g.err) THEN @ + 1 ELSE @]
    IN [o |-> Decide(o1, r.permissions),
        cache |-> IF StoresLookup(g.err)
                  THEN AuthCacheSet(cache, cacheKey, g.caps)
                  ELSE cache]

\* where the handler stands after a step that left it with o
Position(o) ==
    IF o.responses > 0 \/ o.panicked THEN "done"
    ELSE IF o.nextCalls > 0 THEN "serve"
    ELSE IF o.getCapsCalls > 0 THEN "lookup"
    ELSE "isEnabled"

(***************************************************************************)
(* The downstream handlers of the DNS provider routes.  A handler runs in  *)
(* stretches: from its entry, or from the return of a store call, to its   *)
(* next store call or its answer.  A stretch reads of its input i what the *)
(* code reads there: i.parses, the page info or URL parameter parses;      *)
(* i.body, the body is valid JSON; i.answer, the error of the call that    *)
(* returned.                                                               *)
(***************************************************************************)
Handlers ==
    {"GetDNSProviders", "GetDNSProvider", "CreateDNSProvider", "UpdateDNSProvider",
     "DeleteDNSProvider", "GetAcmeshProviders", "GetAcmeshProvider"}

StepInputs == [parses : BOOLEAN, body : BOOLEAN, answer : {"nil", "NotFound", "error"}]

\* a stretch that does not read a part of its input is given one value of it
NoInput == [parses |-> TRUE, body |-> TRUE, answer |-> "nil"]

\* the handler writes its response
Answer(o, status) == [o EXCEPT !.dstatus = status, !.waiting = ""]

\* the handler calls the store and waits
Call(o, what) == [o EXCEPT !.waiting = what]

\* GET /dns-providers
GetDNSProviders(o, i) ==
    IF o.waiting = ""
    THEN IF ~i.parses THEN Answer(o, StatusBadRequest) ELSE Call(o, "List")
    ELSE IF i.answer # "nil"
    THEN Answer(o, StatusBadRequest)
    ELSE Answer(o, StatusOK)

\* GET /dns-providers/{providerID}
GetDNSProvider(o, i) ==
    IF o.waiting = ""
    THEN IF ~i.parses THEN Answer(o, StatusBadRequest) ELSE Call(o, "GetByID")
    ELSE IF i.answer = "NotFound" THEN Answer(o, StatusNotFound)
    ELSE IF i.answer = "nil" THEN Answer(o, StatusOK)
    ELSE Answer(o, StatusBadRequest)

\* POST /dns-providers
CreateDNSProvider(o, i) ==
    IF o.waiting = ""
    THEN IF ~i.body
         THEN Answer(o, StatusBadRequest)
         ELSE LET userID == IF o.ctxHasUserID THEN o.ctxUserID ELSE 0
              IN Call([o EXCEPT !.owner = userID], "Save")
    ELSE IF i.answer # "nil"
    THEN Answer(o, StatusBadRequest)
    ELSE Answer([o EXCEPT !.saved = TRUE], StatusOK)

\* PUT /dns-providers/{providerID}
UpdateDNSProvider(o, i) ==
    IF o.waiting = ""
    THEN IF ~i.parses THEN Answer(o, StatusBadRequest) ELSE Call(o, "GetByID")
    ELSE IF o.waiting = "GetByID"
    THEN IF i.answer = "NotFound" THEN Answer(o, StatusNotFound)
         ELSE IF i.answer = "nil"
         THEN IF ~i.body THEN Answer(o, StatusBadRequest) ELSE Call(o, "Save")
         ELSE Answer(o, StatusBadRequest)
    ELSE IF i.answer # "nil"
    THEN Answer(o, StatusBadRequest)
    ELSE Answer([o EXCEPT !.saved = TRUE], StatusOK)

\* DELETE /dns-providers/{providerID}
DeleteDNSProvider(o, i) ==
    IF o.waiting = ""
    THEN IF ~i.parses THEN Answer(o, StatusBadRequest) ELSE Call(o, "GetByID")
    ELSE IF o.waiting = "GetByID"
    THEN IF i.answer = "NotFound" THEN Answer(o, StatusNotFound)
         ELSE IF i.answer = "nil" THEN Call(o, "Delete")
         ELSE Answer(o, StatusBadRequest)
    ELSE Answer([o EXCEPT !.deleted = TRUE], StatusOK)

\* GET /dns-providers/acmesh
GetAcmeshProviders(o, i) == Answer(o, StatusOK)

\* GET /dns-providers/acmesh/{acmeshID}; dnsproviders.Get reads the list of
\* providers the process holds
GetAcmeshProvider(o, i) ==
    IF ~i.parses THEN Answer(o, StatusBadRequest)
    ELSE IF i.answer = "NotFound" THEN Answer(o, StatusNotFound)
    ELSE IF i.answer = "nil" THEN Answer(o, StatusOK)
    ELSE Answer(o, StatusBadRequest)

\* what the handler behind Enforce sees of Enforce's work: the call and the
\* context
HandedOn(o) ==
    [Blank EXCEPT !.nextCalls = o.nextCalls,
                  !.ctxHasUserID = o.ctxHasUserID,
                  !.ctxUserID = o.ctxUserID]

\* one stretch of the handler of the route
ServeHTTP(o, i) ==
    IF o.handler = "GetDNSProviders" THEN GetDNSProviders(o, i)
    ELSE IF o.handler = "GetDNSProvider" THEN GetDNSProvider(o, i)
    ELSE IF o.handler = "CreateDNSProvider" THEN CreateDNSProvider(o, i)
    ELSE IF o.handler = "UpdateDNSProvider" THEN UpdateDNSProvider(o, i)
    ELSE IF o.handler = "DeleteDNSProvider" THEN DeleteDNSProvider(o, i)
    ELSE IF o.handler = "GetAcmeshProviders" THEN GetAcmeshProviders(o, i)
    ELSE GetAcmeshProvider(o, i)

\* the inputs that tell the runs of the stretch of the handler that starts
\* with o apart
InputsAt(o) ==
    IF o.waiting = ""
    THEN IF o.handler = "GetAcmeshProviders" THEN {NoInput}
         ELSE IF o.handler = "CreateDNSProvider"
         THEN {[NoInput EXCEPT !.body = b] : b \in BOOLEAN}
         ELSE IF o.handler = "GetAcmeshProvider"
         THEN {i \in StepInputs : i.body /\ (i.parses \/ i.answer = "nil")}
         ELSE {[NoInput EXCEPT !.parses = p] : p \in BOOLEAN}
    ELSE IF o.handler = "UpdateDNSProvider" /\ o.waiting = "GetByID"
    THEN {i \in StepInputs : i.parses /\ (i.body \/ i.answer = "nil")}
    ELSE IF o.waiting = "Delete" THEN {NoInput}
    ELSE {i \in StepInputs : i.parses /\ i.body}

\* where the handler stands after a stretch that left it with o
HandlerPosition(o) == IF o.waiting = "" THEN "served" ELSE "handler"

(***************************************************************************)
(* The state machine.                                                      *)
(***************************************************************************)
NoAccount == [enabled |-> FALSE, err |-> FALSE]
NoCapabilities == [caps |-> <<>>, err |-> FALSE]

NoRequest ==
    [header |-> NoToken, query |-> NoToken, permissions |-> <<>>,
     account |-> NoAccount, capabilities |-> NoCapabilities]

\* the token names a user the backing store can be asked about
NamesUser(tokenString) == tokenString.kind = "valid" /\ tokenString.uid.type = "float64"

\* a token in the query parameter comes with an empty or malformed header
QueriesWith(h) == IF h \in {NoToken, Malformed} THEN QueryTokens ELSE {NoToken}

\* the requests a client can send to a route, with the store's answers
Requests ==
    UNION {
      UNION {
        LET named == NamesUser(IF h # NoToken THEN h ELSE q)
        IN [header : {h}, query : {q}, permissions : PermLists,
            account : IF named THEN AccountAnswers ELSE {NoAccount},
            capabilities : IF named THEN CapabilityAnswers ELSE {NoCapabilities}]
        : q \in QueriesWith(h)}
      : h \in TokenStrings}

\* the requests goroutine B serves: an enabled user on a permission-checked
\* route while the capability store is failing, the requests that write to
\* the cache
RivalRequests ==
    [header : {[kind |-> "valid", uid |-> [type |-> "float64", twice |-> 2]]},
     query : {NoToken},
     permissions : {<<"hosts.view">>},
     account : {[enabled |-> TRUE, err |-> FALSE]},
     capabilities : {[caps |-> <<>>, err |-> TRUE]}]

\* goroutine A serves any request, goroutine B the ones above
RequestsOf(g) == IF g = "A" THEN Requests ELSE RivalRequests

\* behind goroutine B the handler is CreateDNSProvider, the payload is valid
\* and the store answers
HandlersOf(g) == IF g = "A" THEN Handlers ELSE {"CreateDNSProvider"}
InputsOf(g, o) == IF g = "A" THEN InputsAt(o) ELSE {NoInput}

\* no request is being served
NoneInFlight ==
    /\ pc = [g \in Goroutines |-> "idle"]
    /\ req = [g \in Goroutines |-> NoRequest]
    /\ resp = [g \in Goroutines |-> Blank]

\* no cache client is running
TasksAtRest ==
    /\ mu = 0
    /\ tpc = [t \in Tasks |-> "get1"]
    /\ tpos = [t \in Tasks |-> 0]
    /\ tgot = [t \in Tasks |-> [item |-> <<>>, found |-> FALSE]]
    /\ tset = {}

Init ==
    /\ IsSetup \in BOOLEAN
    /\ privateKey \in Keys
    /\ publicKey \in Keys
    /\ AuthCache = <<>>
    /\ NoneInFlight
    /\ TasksAtRest

\* a request arrives: DecodeAuth, then Enforce(permissions...) up to its
\* answer, its call of next.ServeHTTP or its call of user.IsEnabled
Arrive(g) ==
    /\ pc[g] = "idle"
    /\ \E r \in RequestsOf(g) :
         LET o == Enforce(r, DecodeAuth(r), IsSetup)
         IN /\ req' = [req EXCEPT ![g] = r]
            /\ resp' = [resp EXCEPT ![g] = o]
            /\ pc' = [pc EXCEPT ![g] = Position(o)]
    /\ UNCHANGED <<IsSetup, privateKey, publicKey, AuthCache>>
    /\ UNCHANGED cvars

\* user.IsEnabled returns to the handler
IsEnabledReturns(g) ==
    /\ pc[g] = "isEnabled"
    /\ LET o == AfterIsEnabled(req[g], resp[g],
                               FromContext(DecodeAuth(req[g])).token, AuthCache)
       IN /\ resp' = [resp EXCEPT ![g] = o]
          /\ pc' = [pc EXCEPT ![g] = Position(o)]
    /\ UNCHANGED <<IsSetup, privateKey, publicKey, AuthCache, req>>
    /\ UNCHANGED cvars

\* user.GetCapabilities returns to the handler
GetCapabilitiesReturns(g) ==
    /\ pc[g] = "lookup"
    /\ LET out == AfterGetCapabilities(req[g], resp[g], AuthCache)
       IN /\ resp' = [resp EXCEPT ![g] = out.o]
          /\ AuthCache' = out.cache
          /\ pc' = [pc EXCEPT ![g] = Position(out.o)]
    /\ UNCHANGED <<IsSetup, privateKey, publicKey, req>>
    /\ UNCHANGED cvars

\* Enforce calls next.ServeHTTP; of the request the handler behind it sees
\* the tokens and the context, not the route's permissions or what Enforce
\* looked up
Serve(g) ==
    /\ pc[g] = "serve"
    /\ resp' = [resp EXCEPT ![g] = HandedOn(resp[g])]
    /\ req' = [req EXCEPT ![g] = [NoRequest EXCEPT !.header = req[g].header,
                                                   !.query = req[g].query]]
    /\ pc' = [pc EXCEPT ![g] = "handler"]
    /\ UNCHANGED <<IsSetup, privateKey, publicKey, AuthCache>>
    /\ UNCHANGED cvars

\* a stretch of the handler of the route: from its entry, or from the return
\* of its store call, to its next store call or to its answer
HandlerRuns(g) ==
    /\ pc[g] = "handler"
    /\ \E h \in IF resp[g].handler = "" THEN HandlersOf(g) ELSE {resp[g].handler} :
         LET entered == [resp[g] EXCEPT !.handler = h]
         IN \E i \in InputsOf(g, entered) :
              LET o == ServeHTTP(entered, i)
              IN /\ resp' = [resp EXCEPT ![g] = o]
                 /\ pc' = [pc EXCEPT ![g] = HandlerPosition(o)]
    /\ UNCHANGED <<IsSetup, privateKey, publicKey, AuthCache, req>>
    /\ UNCHANGED cvars

\* the request is over; its context is garbage
Finish(g) ==
    /\ pc[g] \in {"done", "served"}
    /\ pc' = [pc EXCEPT ![g] = "idle"]
    /\ req' = [req EXCEPT ![g] = NoRequest]
    /\ resp' = [resp EXCEPT ![g] = Blank]
    /\ UNCHANGED <<IsSetup, privateKey, publicKey, AuthCache>>
    /\ UNCHANGED cvars

\* the entry of a user leaves the cache when its time to live is over
Expire ==
    /\ \E k \in DOMAIN AuthCache : AuthCache' = AuthCacheExpire(AuthCache, k)
    /\ UNCHANGED <<IsSetup, privateKey, publicKey, pc, req, resp>>
    /\ UNCHANGED cvars

Next ==
    \/ \E g \in Goroutines :
         \/ Arrive(g)
         \/ IsEnabledReturns(g)
         \/ GetCapabilitiesReturns(g)
         \/ Serve(g)
         \/ HandlerRuns(g)
         \/ Finish(g)
    \/ Expire

Spec == Init /\ [][Next]_vars

(***************************************************************************)
(* Concurrent clients of the Capability Cache.  Each task follows the      *)
(* handler's use of the cache for one user key: Get; on a miss, Set of the *)
(* list it obtained; then the Get of a later request.  Get and Set take    *)
(* the cache's lock; a Set stores its list one element at a time.          *)
(***************************************************************************)
\* the key all tasks use
RaceKey == CacheKey(1)

\* the list task t stores: its i-th element is <<t, i>>
TaskSet(t) == [i \in 1..MaxCapLen |-> <<t, i>>]

\* variant: the lock is taken without waiting for it
MutexFree_NoWait(m) == TRUE

\* the lock can be taken
MutexFree(m) == m = 0

\* Get: take the lock
GetLock(t) ==
    /\ tpc[t] \in {"get1", "get2"}
    /\ MutexFree(mu)
    /\ mu' = t
    /\ tpc' = [tpc EXCEPT ![t] = IF @ = "get1" THEN "read1" ELSE "read2"]
    /\ UNCHANGED <<AuthCache, tpos, tgot, tset>>
    /\ UNCHANGED svars

\* Get: read the entry and release the lock
GetRead(t) ==
    /\ tpc[t] \in {"read1", "read2"}
    /\ tgot' = [tgot EXCEPT ![t] = AuthCacheGet(AuthCache, RaceKey)]
    /\ mu' = 0
    /\ tpc' = [tpc EXCEPT ![t] =
                 IF @ = "read1" /\ ~AuthCacheGet(AuthCache, RaceKey).found
                 THEN "set"
                 ELSE "end"]
    /\ UNCHANGED <<AuthCache, tpos, tset>>
    /\ UNCHANGED svars

\* Set: take the lock
SetLock(t) ==
    /\ tpc[t] = "set"
    /\ MutexFree(mu)
    /\ mu' = t
    /\ tpos' = [tpos EXCEPT ![t] = 0]
    /\ tpc' = [tpc EXCEPT ![t] = "write"]
    /\ UNCHANGED <<AuthCache, tgot, tset>>
    /\ UNCHANGED svars

\* Set: store the next element of the list
SetWrite(t) ==
    /\ tpc[t] = "write"
    /\ tpos[t] < Len(TaskSet(t))
    /\ AuthCache' = AuthCacheSet(AuthCache, RaceKey,
                        IF tpos[t] = 0 \/ ~AuthCacheGet(AuthCache, RaceKey).found
                        THEN <<TaskSet(t)[tpos[t] + 1]>>
                        ELSE Append(AuthCache[RaceKey], TaskSet(t)[tpos[t] + 1]))
    /\ tpos' = [tpos EXCEPT ![t] = @ + 1]
    /\ UNCHANGED <<mu, tpc, tgot, tset>>
    /\ UNCHANGED svars

\* Set: the list is stored; release the lock and return
SetUnlock(t) ==
    /\ tpc[t] = "write"
    /\ tpos[t] = Len(TaskSet(t))
    /\ mu' = 0
    /\ tset' = tset \cup {t}
    /\ tpc' = [tpc EXCEPT ![t] = "get2"]
    /\ UNCHANGED <<AuthCache, tpos, tgot>>
    /\ UNCHANGED svars

InitCache ==
    /\ IsSetup = TRUE
    /\ privateKey = ParsedKey
    /\ publicKey = ParsedKey
    /\ AuthCache = <<>>
    /\ NoneInFlight
    /\ TasksAtRest

NextCache ==
    \E t \in Tasks :
        GetLock(t) \/ GetRead(t) \/ SetLock(t) \/ SetWrite(t) \/ SetUnlock(t)

SpecCache == InitCache /\ [][NextCache]_vars

(***************************************************************************)
(* Properties.                                                             *)
(***************************************************************************)
Elems(s) == {s[i] : i \in 1..Len(s)}

\* Enforce has decided request g: it answered, crashed, or called
\* next.ServeHTTP
Done(g) == pc[g] \in {"done", "serve"}
\* the token string the verifier found in the request
Bearer(g) == FindToken(req[g])
\* the token passed verification
Verified(g) == DecodeAuth(req[g]).err = NoError
\* a verified token whose uid claim is a number
VerifiedUser(g) == Verified(g) /\ Bearer(g).uid.type = "float64"
Allowed(g) == resp[g].nextCalls = 1 /\ resp[g].responses = 0
Denied(g, status) ==
    resp[g].nextCalls = 0 /\ resp[g].responses = 1 /\ resp[g].status = status

\* C1: in a configured deployment, a request with a verified token of an
\* enabled user on a route with a non-empty Required Permission Set P is
\* passed on when the resolved Capability Set meets P, and is answered 403
\* without reaching the downstream handler when the set is disjoint from P
\* and lacks the full-admin sentinel.
C1_IntersectAllowsDisjointDenies ==
    \A g \in Goroutines :
      (/\ Done(g) /\ IsSetup /\ VerifiedUser(g) /\ req[g].account.enabled
       /\ Len(req[g].permissions) > 0)
      => /\ (Elems(resp[g].userCapabilities) \cap Elems(req[g].permissions) # {}
             => Allowed(g))
         /\ (/\ Elems(resp[g].userCapabilities) \cap Elems(req[g].permissions) = {}
             /\ CapabilityFullAdmin \notin Elems(resp[g].userCapabilities)
             => Denied(g, StatusForbidden))

\* a user without the sentinel is allowed through the second required permission
C1_Witness ==
    /\ Done("A") /\ IsSetup /\ VerifiedUser("A") /\ req["A"].account.enabled
    /\ Len(req["A"].permissions) = 2
    /\ req["A"].permissions[1] \notin Elems(resp["A"].userCapabilities)
    /\ req["A"].permissions[2] \in Elems(resp["A"].userCapabilities)
    /\ CapabilityFullAdmin \notin Elems(resp["A"].userCapabilities)
    /\ Allowed("A")

\* C2 as stated: every request for a user marked disabled is answered 401,
\* the downstream handler is not invoked, and no capability is looked at,
\* whatever the deployment state.
C2_DisabledAlways401 ==
    \A g \in Goroutines :
      (Done(g) /\ NamesUser(Bearer(g)) /\ ~req[g].account.enabled)
      => /\ Denied(g, StatusUnauthorized)
         /\ resp[g].cacheGets = 0 /\ resp[g].getCapsCalls = 0

\* C2 amended: in a configured deployment, every request for a user marked
\* disabled is answered 401, the downstream handler is not invoked, and
\* neither the cache nor the capability store is consulted, whatever the
\* capabilities held and the permissions required.
C2_DisabledConfigured401 ==
    \A g \in Goroutines :
      (Done(g) /\ IsSetup /\ NamesUser(Bearer(g)) /\ ~req[g].account.enabled)
      => /\ Denied(g, StatusUnauthorized)
         /\ resp[g].cacheGets = 0 /\ resp[g].getCapsCalls = 0

\* a disabled user whose stored capabilities satisfy the route gets 401
C2_Witness ==
    /\ Done("A") /\ IsSetup /\ VerifiedUser("A") /\ ~req["A"].account.enabled
    /\ Len(req["A"].permissions) > 0
    /\ ~req["A"].capabilities.err
    /\ req["A"].permissions[1] \in Elems(req["A"].capabilities.caps)
    /\ Denied("A", StatusUnauthorized)
    /\ resp["A"].isEnabledCalls = 1

\* the bearer token is missing, malformed, signed with another key or expired
BadToken(g) == Bearer(g).kind \in {"none", "malformed", "wrongkey", "expired"}

\* C3 as stated: in every deployment state a request whose token is missing,
\* malformed, signed with a different key or expired is answered 401 and
\* never reaches the downstream handler.
C3_BadTokenAlways401 ==
    \A g \in Goroutines :
      (Done(g) /\ BadToken(g)) => Denied(g, StatusUnauthorized)

\* C3 amended: in a configured deployment a request whose token is missing,
\* malformed, signed with a different key or expired is answered 401 and
\* never reaches the downstream handler, for every route.
C3_BadTokenConfigured401 ==
    \A g \in Goroutines :
      (Done(g) /\ IsSetup /\ BadToken(g)) => Denied(g, StatusUnauthorized)

\* an expired token of an enabled, capable user on a permission-checked route
C3_Witness ==
    /\ Done("A") /\ IsSetup /\ publicKey = ParsedKey
    /\ Bearer("A").kind = "expired" /\ Bearer("A").uid.type = "float64"
    /\ Len(req["A"].permissions) > 0
    /\ Denied("A", StatusUnauthorized)
    /\ resp["A"].message = "token is expired"

\* a decision that tests the sentinel once, before looking at the permissions
HoistedDecision(caps, perms) ==
    IF CapabilityFullAdmin \in caps THEN TRUE ELSE caps \cap perms # {}

\* C4: whenever the permission match runs (an enabled user, a non-empty
\* Required Permission Set), a Capability Set holding the full-admin
\* sentinel is allowed, and the handler's allow/deny result is the one of a
\* decision that tests the sentinel once before the loop.
C4_SentinelAllowsAsHoisted ==
    \A g \in Goroutines :
      (Done(g) /\ resp[g].matchRan)
      => /\ (CapabilityFullAdmin \in Elems(resp[g].userCapabilities) => Allowed(g))
         /\ (Allowed(g) <=> HoistedDecision(Elems(resp[g].userCapabilities),
                                            Elems(req[g].permissions)))
         /\ (~Allowed(g) => Denied(g, StatusForbidden))

\* the sentinel sits last in the list and the required permission is not held
C4_Witness ==
    /\ Done("A") /\ resp["A"].matchRan /\ req["A"].account.enabled
    /\ Len(resp["A"].userCapabilities) = 2
    /\ resp["A"].userCapabilities[1] # CapabilityFullAdmin
    /\ resp["A"].userCapabilities[2] = CapabilityFullAdmin
    /\ Len(req["A"].permissions) = 1
    /\ Elems(req["A"].permissions) \cap Elems(resp["A"].userCapabilities) = {}
    /\ Allowed("A")

\* C5: on a route with an empty Required Permission Set every request with
\* a verified token of an enabled user reaches the downstream handler,
\* whatever the capability store would answer and whatever the cache holds.
C5_EmptyPermissionsAllow ==
    \A g \in Goroutines :
      (/\ Done(g) /\ VerifiedUser(g) /\ req[g].account.enabled
       /\ Len(req[g].permissions) = 0)
      => Allowed(g)

\* configured deployment, the capability store is failing, the cache holds a
\* failed lookup of the user, the user passes
C5_Witness ==
    /\ Done("A") /\ IsSetup /\ VerifiedUser("A") /\ req["A"].account.enabled
    /\ Len(req["A"].permissions) = 0
    /\ req["A"].capabilities.err
    /\ CacheKey(resp["A"].userID) \in DOMAIN AuthCache
    /\ resp["A"].isEnabledCalls = 1
    /\ Allowed("A")

\* a step in which user.GetCapabilities returns to the handler of g
LookupReturns(g) == pc[g] = "lookup" /\ pc'[g] # "lookup"

\* C6 as stated: after a permission-checked request misses the cache and
\* user.GetCapabilities succeeds, the cache holds the returned list under
\* the user's key.
C6_MissPopulatesCache ==
    [][\A g \in Goroutines :
         (LookupReturns(g) /\ ~req[g].capabilities.err)
         => /\ CacheKey(resp[g].userID) \in DOMAIN AuthCache'
            /\ AuthCache'[CacheKey(resp[g].userID)] = req[g].capabilities.caps]_vars

\* C7: in an unconfigured deployment every request that carries a token
\* reaches the downstream handler; no account lookup, cache access or
\* capability lookup is made and no response is written, for every
\* Required Permission Set.
C7_UnconfiguredBypass ==
    \A g \in Goroutines :
      (Done(g) /\ ~IsSetup /\ Bearer(g) # NoToken)
      => /\ Allowed(g)
         /\ ~resp[g].panicked
         /\ resp[g].isEnabledCalls = 0
         /\ resp[g].cacheGets = 0 /\ resp[g].cacheSets = 0
         /\ resp[g].getCapsCalls = 0

\* a disabled user's token on a permission-checked route passes
C7_Witness ==
    /\ Done("A") /\ ~IsSetup
    /\ NamesUser(Bearer("A")) /\ ~req["A"].account.enabled
    /\ Len(req["A"].permissions) > 0
    /\ Allowed("A")

\* C8 as stated: in a configured deployment a verified claim set without a
\* usable user identifier is answered 401, the downstream handler is not
\* invoked and the handler does not crash.
C8_BadUidIs401 ==
    \A g \in Goroutines :
      (Done(g) /\ IsSetup /\ Verified(g) /\ Bearer(g).uid.type # "float64")
      => Denied(g, StatusUnauthorized) /\ ~resp[g].panicked

\* C9: when user.GetCapabilities fails during a permission-checked request,
\* the request is answered 403 and never reaches the downstream handler.
C9_LookupFailureIs403 ==
    \A g \in Goroutines :
      (Done(g) /\ resp[g].getCapsCalls = 1 /\ req[g].capabilities.err)
      => Denied(g, StatusForbidden)

\* cache miss, failed lookup, 403
C9_Witness ==
    /\ Done("A") /\ IsSetup /\ VerifiedUser("A") /\ req["A"].account.enabled
    /\ Len(req["A"].permissions) > 0
    /\ ~resp["A"].found /\ resp["A"].getCapsCalls = 1 /\ req["A"].capabilities.err
    /\ Denied("A", StatusForbidden)

\* C10 as stated: in a configured deployment, when user.IsEnabled returns an
\* error the request is answered 401 and the downstream handler is not
\* invoked, whatever enabled value came with the error.
C10_IsEnabledErrorIs401 ==
    \A g \in Goroutines :
      (Done(g) /\ IsSetup /\ resp[g].isEnabledCalls = 1 /\ req[g].account.err)
      => Denied(g, StatusUnauthorized)

\* the handler behind Enforce has been entered for request g
InHandler(g) == pc[g] \in {"handler", "served"}
\* the handler behind Enforce has answered request g
Handled(g) == pc[g] = "served"

\* C12: in a configured deployment, whenever Enforce allows a request the
\* context handed on carries the user identifier of the verified token's
\* uid claim, and an item CreateDNSProvider stores has that identifier as
\* owner; on a denied request the downstream handler is not invoked.
C12_AllowedCarriesUserID ==
    \A g \in Goroutines :
      IsSetup
      => /\ ((Done(g) \/ InHandler(g)) /\ resp[g].nextCalls > 0
             => /\ Verified(g) /\ Bearer(g).uid.type = "float64"
                /\ resp[g].nextCalls = 1
                /\ resp[g].ctxHasUserID
                /\ 2 * resp[g].ctxUserID <= Bearer(g).uid.twice
                /\ Bearer(g).uid.twice < 2 * resp[g].ctxUserID + 2)
         /\ (Handled(g) /\ resp[g].handler = "CreateDNSProvider" /\ resp[g].saved
             => resp[g].owner = resp[g].ctxUserID /\ resp[g].ctxHasUserID)
         /\ (Done(g) /\ resp[g].responses > 0
             => resp[g].nextCalls = 0 /\ resp[g].handler = "")
         /\ (InHandler(g) => resp[g].nextCalls = 1)

\* user 2 passed Enforce and CreateDNSProvider stored an item owned by user 2
C12_Witness ==
    /\ Handled("A") /\ IsSetup
    /\ Bearer("A").uid.twice = 4
    /\ resp["A"].handler = "CreateDNSProvider"
    /\ resp["A"].saved
    /\ resp["A"].owner = 2

\* a key of the pair did not parse when DecodeAuth was constructed
KeyPairFailed == privateKey = NilKey \/ publicKey = NilKey

\* C13 as stated: when the key pair did not parse, every token verification
\* fails and no request is passed to a downstream handler as authenticated
\* (with a user identifier in its context).
C13_KeyFailureFailsClosed ==
    \A g \in Goroutines :
      (KeyPairFailed /\ (Done(g) \/ InHandler(g)))
      => /\ ~Verified(g)
         /\ (resp[g].nextCalls > 0 => ~resp[g].ctxHasUserID)

\* C14 as stated: a failed capability lookup leaves the cache without an
\* entry for the user.
C14_FailedLookupNotCached ==
    [][\A g \in Goroutines :
         (LookupReturns(g) /\ req[g].capabilities.err)
         => CacheKey(resp[g].userID) \notin DOMAIN AuthCache']_vars

\* C15 as stated: every request that enters Enforce ends either with one
\* error response (401 or 403) and no call of the downstream handler, or
\* with one call of the downstream handler and no response.
C15_ExactlyOneOutcome ==
    \A g \in Goroutines :
      Done(g) => \/ /\ resp[g].responses = 1
                    /\ resp[g].status \in {StatusUnauthorized, StatusForbidden}
                    /\ resp[g].nextCalls = 0
                 \/ /\ resp[g].nextCalls = 1
                    /\ resp[g].responses = 0

\* a step in which the AuthCache.Get of request g finds an entry
CacheHit(g) == pc[g] = "isEnabled" /\ resp'[g].found

\* C16: a permission-checked request that finds a cache entry for its user
\* decides on the cached list alone: the capability store is not asked, the
\* cache is left as it was, and user.IsEnabled is still called.
C16_CacheHitDecidesFromCache ==
    [][\A g \in Goroutines :
         CacheHit(g)
         => /\ resp'[g].cacheGets = 1
            /\ resp'[g].getCapsCalls = 0 /\ resp'[g].cacheSets = 0
            /\ pc'[g] \in {"done", "serve"}
            /\ AuthCache' = AuthCache
            /\ resp'[g].isEnabledCalls = 1
            /\ resp'[g].userCapabilities = AuthCache[CacheKey(resp'[g].userID)]
            /\ (resp'[g].nextCalls = 1
                <=> HoistedDecision(Elems(AuthCache[CacheKey(resp'[g].userID)]),
                                    Elems(req'[g].permissions)))]_vars

\* the entry request A decided on was stored by request B while A waited for
\* user.IsEnabled; the store holds a matching capability, the cached list
\* still denies
C16_Witness ==
    /\ Done("A") /\ resp["A"].found
    /\ ~req["A"].capabilities.err
    /\ req["A"].permissions[1] \in Elems(req["A"].capabilities.caps)
    /\ Denied("A", StatusForbidden)
    /\ resp["A"].getCapsCalls = 0
    /\ Done("B") /\ resp["B"].cacheSets = 1

\* no Set is between taking and releasing the lock
NoSetRunning == \A t \in Tasks : tpc[t] # "write"

\* C11: under every interleaving of tasks that read and populate the cache
\* for one key, a Get returns found = false or the complete list of one Set
\* that has returned, and once every Set that was started has returned the
\* entry is the list of exactly one of them.
C11_NoTornReadOneWinner ==
    /\ \A t \in Tasks :
         tgot[t].found => \E u \in tset : tgot[t].item = TaskSet(u)
    /\ (NoSetRunning /\ tset # {})
       => /\ AuthCacheGet(AuthCache, RaceKey).found
          /\ Cardinality({u \in tset : AuthCache[RaceKey] = TaskSet(u)}) = 1

\* every task missed and stored its own list; task 1 then read the list of
\* another task
C11_Witness ==
    /\ tset = Tasks
    /\ \A t \in Tasks : tpc[t] = "end"
    /\ tgot[1].found
    /\ tgot[1].item # TaskSet(1)
    /\ \E u \in Tasks : AuthCache[RaceKey] = TaskSet(u)

====
